---- MODULE Spec2Model ----
(***************************************************************************)
(* Model of src/classroom_simulation.py: the frame loop of                 *)
(* EducationalSystemSimulation.run, the four sliders and their drag state, *)
(* the model parameters, the student population and the bounded history.   *)
(*                                                                         *)
(* Numbers.  The program computes in floating point.  The model computes   *)
(* the same expressions exactly: a slider value or a parameter v is kept   *)
(* as the integer v * Scale (every value a drag can produce is a multiple  *)
(* of 1/Scale), a learning speed s as the integer s * SpeedUnit, and every *)
(* quotient (demand, capacity ratio, fail rate) as a reduced fraction      *)
(* <<numerator, denominator>>.  Rounding of the floating-point unit is not *)
(* modelled.                                                               *)
(***************************************************************************)
EXTENDS Integers, Sequences, FiniteSets, TLC

VARIABLES
    sliders,            \* self.sliders: name -> [value, dragging]
    num_students,       \* self.num_students
    teacher_skill,      \* self.teacher_skill       (times Scale)
    curriculum_content, \* self.curriculum_content  (times Scale)
    time_allotted,      \* self.time_allotted       (times Scale)
    passing_threshold,  \* self.passing_threshold   (a fraction)
    learning_speeds,    \* self.learning_speeds     (each times SpeedUnit)
    student_positions,  \* self.student_positions
    history,            \* self.history
    running,            \* the local `running` of run()
    capacity_ratios,    \* the local `capacity_ratios` of run()
    fail_count,         \* the local `fail_count` of run()
    fail_rate,          \* the local `fail_rate` of run()
    event,              \* the loop variable `event` of run()
    pc,                 \* the position of run()
    canvas,             \* what the Pygame drawing code of the frame drew
    chart,              \* what update_matplotlib_plot drew
    plt_open,           \* the matplotlib figure is open
    pygame_open,        \* the Pygame context is initialised
    exit_status,        \* the status sys.exit() ended the process with
    frames,             \* history variable: frames run to their end
    appends,            \* history variable: history.append calls made
    nevents,            \* history variable: events handled
    quit_frame          \* history variable: the frame that polled QUIT (0: none)

vars == <<sliders, num_students, teacher_skill, curriculum_content, time_allotted,
          passing_threshold, learning_speeds, student_positions, history, running,
          capacity_ratios, fail_count, fail_rate, event, pc, canvas, chart,
          plt_open, pygame_open, exit_status, frames, appends, nevents, quit_frame>>

---------------------------------------------------------------------------
(* Bounds of the model *)

\* frames a behaviour of Spec starts
MaxFrames == 2
\* events a behaviour of Spec handles
MaxEvents == 3
\* frames a behaviour of SpecHistory starts
MaxHistoryFrames == 52
\* events a behaviour of SpecHistory handles
MaxHistoryEvents == 1
\* frames a behaviour of SpecExit starts
MaxExitFrames == 2
\* events a behaviour of SpecExit handles
MaxExitEvents == 2

---------------------------------------------------------------------------
(* Program constants *)

TrackLeft == 20
TrackWidth == 160
HandleWidth == 8
HandleHeight == 21
HandleHalf == 4
HandleRise == 3
HistoryCap == 50
InitStudents == 25

\* the unit of slider values and parameters: value = stored / Scale
Scale == TrackWidth * 10
\* the unit of learning speeds: speed = stored / SpeedUnit
SpeedUnit == 10 * 10
\* the floor 0.3 of setup_students
SpeedFloor == (3 * SpeedUnit) \div 10
\* exit_status while the process runs
NotExited == 0 - 1

Names == {"class_size", "teacher_skill", "curriculum_intensity", "time_available"}

\* self.param_ranges, times Scale
ParamMin(name) ==
    CASE name = "class_size" -> 5 * Scale
      [] name = "teacher_skill" -> Scale \div 10
      [] name = "curriculum_intensity" -> 50 * Scale
      [] name = "time_available" -> 30 * Scale

ParamMax(name) ==
    CASE name = "class_size" -> 40 * Scale
      [] name = "teacher_skill" -> Scale
      [] name = "curriculum_intensity" -> 200 * Scale
      [] name = "time_available" -> 120 * Scale

\* slider['rect'].top; left, width and height are the same for the four
SliderTop(name) ==
    CASE name = "class_size" -> 410
      [] name = "teacher_skill" -> 435
      [] name = "curriculum_intensity" -> 460
      [] name = "time_available" -> 485

\* setup_parameters: the initial parameters, times Scale
InitTeacherSkill == (85 * Scale) \div 100
InitCurriculum == 80 * Scale
InitTime == 70 * Scale

---------------------------------------------------------------------------
(* Exact fractions <<n, d>>, d > 0, reduced *)

RECURSIVE GCD(_, _)
GCD(a, b) == IF b = 0 THEN a ELSE GCD(b, a % b)

Abs(a) == IF a < 0 THEN -a ELSE a

Rat(n, d) ==
    LET g == GCD(Abs(n), Abs(d))
        s == IF d < 0 THEN -1 ELSE 1
    IN  <<(s * n) \div g, (s * d) \div g>>

RInt(n) == <<n, 1>>
RMul(a, b) == Rat(a[1] * b[1], a[2] * b[2])
RDiv(a, b) == Rat(a[1] * b[2], a[2] * b[1])
RAdd(a, b) ==
    LET l == (a[2] \div GCD(a[2], b[2])) * b[2]
    IN  Rat(a[1] * (l \div a[2]) + b[1] * (l \div b[2]), l)
RLess(a, b) == a[1] * b[2] < b[1] * a[2]
RLeq(a, b) == a[1] * b[2] <= b[1] * a[2]
RIsZero(a) == a[1] = 0

\* the sum of s[lo .. hi], by halves
RECURSIVE RSumRange(_, _, _)
RSumRange(s, lo, hi) ==
    IF lo > hi THEN RInt(0)
    ELSE IF lo = hi THEN s[lo]
    ELSE LET mid == (lo + hi) \div 2
         IN  RAdd(RSumRange(s, lo, mid), RSumRange(s, mid + 1, hi))

RSum(s) == RSumRange(s, 1, Len(s))

\* a parameter or slider value as a fraction
Val(v) == Rat(v, Scale)
\* a learning speed as a fraction
Speed(s) == Rat(s, SpeedUnit)

---------------------------------------------------------------------------
(* Inputs: pointer positions and random draws *)

\* event.pos of a MOUSEBUTTONDOWN: on each of the four initial handles
\* (x = 110, 150, 50, 90 on the rows of class_size, teacher_skill,
\* curriculum_intensity, time_available), and where no handle is at first
\* and the curriculum handle is after a drag to x = 46
DownPositions ==
    {<<110, 415>>, <<150, 440>>, <<50, 465>>, <<90, 490>>, <<46, 465>>}
\* event.pos of a MOUSEMOTION: left of the track, inside it, right of it
MotionPositions == {<<15, 300>>, <<46, 465>>, <<185, 300>>}
\* event.pos of a MOUSEBUTTONUP: off the sliders
UpPositions == {<<300, 300>>}

\* the pointer positions of SpecHistory and SpecExit: the curriculum handle
\* and a place left of it
FewPositions == {<<50, 465>>, <<46, 465>>}

\* the seeds of the random generator
Seeds == {1, 2}

\* np.random.normal(loc=1.1, scale=0.25): the values a draw takes, times
\* SpeedUnit; the i-th draw of a generator seeded with `seed`
NormalDraws == <<110, 135, 200, 25, 100, -15>>
RawNormal(seed, i) == NormalDraws[((seed * i + seed) % Len(NormalDraws)) + 1]

\* np.random.randint(40, 360), np.random.randint(60, 340)
RandX(seed, i) == 40 + ((37 * seed * i) % 320)
RandY(seed, i) == 60 + ((53 * seed * i) % 280)

Max(a, b) == IF a > b THEN a ELSE b
Min(a, b) == IF a < b THEN a ELSE b

---------------------------------------------------------------------------
(* The model: pure functions of the parameters *)

\* class_size_penalty(n) = 1 + 0.025 * (n - 1)
class_size_penalty(n) == RAdd(RInt(1), RMul(Rat(25, 1000), RInt(n - 1)))

\* compute_effective_demand()
compute_effective_demand ==
    LET base_pace == RDiv(Val(curriculum_content), Val(time_allotted))
        teacher_factor == RDiv(RInt(1), Val(teacher_skill))
        size_penalty == class_size_penalty(num_students)
    IN  RMul(RMul(base_pace, teacher_factor), size_penalty)

\* compute_capacity_ratio(learning_speed)
compute_capacity_ratio(learning_speed) ==
    RDiv(Speed(learning_speed), compute_effective_demand)

\* [self.compute_capacity_ratio(speed) for speed in self.learning_speeds]
RatiosOf(speeds) == [i \in 1 .. Len(speeds) |-> compute_capacity_ratio(speeds[i])]

\* mutant of FailCount: cr <= passing_threshold
FailCountLeq(ratios) ==
    Cardinality({i \in 1 .. Len(ratios) : RLeq(ratios[i], passing_threshold)})

\* sum(1 for cr in capacity_ratios if cr < self.passing_threshold)
FailCount(ratios) ==
    Cardinality({i \in 1 .. Len(ratios) : RLess(ratios[i], passing_threshold)})

\* (fail_count / self.num_students) * 100
FailRate(count) == RMul(Rat(count, num_students), RInt(100))

\* np.mean(capacity_ratios)
Mean(ratios) == RDiv(RSum(ratios), RInt(Len(ratios)))

\* a ZeroDivisionError of lines 197-199: a divisor of the model is zero
DivisionFails ==
    \/ /\ learning_speeds # <<>>
       /\ \/ time_allotted = 0
          \/ teacher_skill = 0
          \/ RIsZero(compute_effective_demand)
    \/ num_students = 0

\* setup_students: the learning speeds and the positions of n students
SampleSpeeds(seed, n) == [i \in 1 .. n |-> Max(SpeedFloor, RawNormal(seed, i))]
SamplePositions(seed, n) == [i \in 1 .. n |-> <<RandX(seed, i), RandY(seed, i)>>]

---------------------------------------------------------------------------
(* The sliders *)

\* int(handle_x - 4): the left edge of the handle rectangle, handle_x =
\* rect.left + (value - min) / (max - min) * rect.width
HandleLeft(name, value) ==
    TrackLeft - HandleHalf
      + ((value - ParamMin(name)) * TrackWidth) \div (ParamMax(name) - ParamMin(name))

HandleTop(name) == SliderTop(name) - HandleRise

\* handle_rect.collidepoint(event.pos)
Collides(name, value, pos) ==
    /\ HandleLeft(name, value) <= pos[1]
    /\ pos[1] < HandleLeft(name, value) + HandleWidth
    /\ HandleTop(name) <= pos[2]
    /\ pos[2] < HandleTop(name) + HandleHeight

\* mutant of RelX: no clamp
RelXUnclamped(x) == x - TrackLeft

\* rel_x = max(0, min(event.pos[0] - rect.left, rect.width))
RelX(x) == Max(0, Min(x - TrackLeft, TrackWidth))

\* mutant of DragValue: proportion * max_val, the range taken from 0
DragValueFromZero(name, x) == (RelX(x) * ParamMax(name)) \div TrackWidth

\* mutant of DragValue: the proportion is taken of event.pos[0], not rel_x
DragValueOfPos(name, x) ==
    ParamMin(name)
      + (Max(0, Min(x, TrackWidth)) * (ParamMax(name) - ParamMin(name))) \div TrackWidth

\* min_val + (rel_x / rect.width) * (max_val - min_val), times Scale
DragValue(name, x) ==
    ParamMin(name) + (RelX(x) * (ParamMax(name) - ParamMin(name))) \div TrackWidth

\* int(slider value)
IntOf(value) == value \div Scale

---------------------------------------------------------------------------
(* State *)

NoEvent == [type |-> "none", pos |-> <<0, 0>>]

NoCanvas == [students |-> <<>>, info |-> <<>>, sliders |-> <<>>]
NoChart == [ratios |-> <<>>, fail_rates |-> <<>>]

\* __init__ (num_students=25): setup_parameters, setup_pygame, setup_students,
\* history = []; then run() up to its loop
Init ==
    /\ num_students = InitStudents
    /\ curriculum_content = InitCurriculum
    /\ time_allotted = InitTime
    /\ teacher_skill = InitTeacherSkill
    /\ passing_threshold = RInt(1)
    /\ sliders = [name \in Names |->
          [value |-> CASE name = "class_size" -> InitStudents * Scale
                       [] name = "teacher_skill" -> InitTeacherSkill
                       [] name = "curriculum_intensity" -> InitCurriculum
                       [] name = "time_available" -> InitTime,
           dragging |-> FALSE]]
    /\ \E seed \in Seeds :
          /\ learning_speeds = SampleSpeeds(seed, InitStudents)
          /\ student_positions = SamplePositions(seed, InitStudents)
    /\ history = <<>>
    /\ running = TRUE
    /\ capacity_ratios = <<>>
    /\ fail_count = 0
    /\ fail_rate = RInt(0)
    /\ event = NoEvent
    /\ pc = "loop"
    /\ canvas = NoCanvas
    /\ chart = NoChart
    /\ plt_open = TRUE
    /\ pygame_open = TRUE
    /\ exit_status = NotExited
    /\ frames = 0
    /\ appends = 0
    /\ nevents = 0
    /\ quit_frame = 0

model_vars == <<num_students, teacher_skill, curriculum_content, time_allotted,
                passing_threshold, learning_speeds, student_positions, history>>
frame_vars == <<capacity_ratios, fail_count, fail_rate, canvas, chart>>
exit_vars == <<plt_open, pygame_open, exit_status>>

---------------------------------------------------------------------------
(* run(): the loop head and the event loop *)

\* mutant of BeginFrame: `while True:`
BeginFrameAlways(maxFrames) ==
    /\ pc = "loop"
    /\ frames < maxFrames
    /\ pc' = "events"
    /\ UNCHANGED <<sliders, num_students, teacher_skill, curriculum_content,
                   time_allotted, passing_threshold, learning_speeds,
                   student_positions, history, capacity_ratios, fail_count,
                   fail_rate, canvas, chart, plt_open, pygame_open, exit_status,
                   running, event, frames, appends, nevents, quit_frame>>

\* `while running:` entered, pygame.event.get() called
BeginFrame(maxFrames) ==
    /\ pc = "loop"
    /\ running
    /\ frames < maxFrames
    /\ pc' = "events"
    /\ UNCHANGED <<sliders, model_vars, frame_vars, exit_vars, running, event,
                   frames, appends, nevents, quit_frame>>

\* `while running:` left
LeaveLoop ==
    /\ pc = "loop"
    /\ ~running
    /\ pc' = "close"
    /\ UNCHANGED <<sliders, model_vars, frame_vars, exit_vars, running, event,
                   frames, appends, nevents, quit_frame>>

\* event.type == pygame.QUIT
Quit(maxEvents) ==
    /\ pc = "events"
    /\ nevents < maxEvents
    /\ event' = [type |-> "QUIT", pos |-> <<0, 0>>]
    /\ running' = FALSE
    /\ quit_frame' = IF quit_frame = 0 THEN frames + 1 ELSE quit_frame
    /\ nevents' = nevents + 1
    /\ UNCHANGED <<sliders, model_vars, frame_vars, exit_vars, pc, frames, appends>>

\* event.type == pygame.MOUSEBUTTONDOWN at pos
MouseButtonDown(pos, maxEvents) ==
    /\ pc = "events"
    /\ nevents < maxEvents
    /\ event' = [type |-> "MOUSEBUTTONDOWN", pos |-> pos]
    /\ nevents' = nevents + 1
    /\ IF \E name \in Names : ParamMax(name) = ParamMin(name)
       THEN /\ pc' = "error"
            /\ UNCHANGED sliders
       ELSE /\ pc' = pc
            /\ sliders' = [name \in Names |->
                  IF Collides(name, sliders[name].value, pos)
                  THEN [sliders[name] EXCEPT !.dragging = TRUE]
                  ELSE sliders[name]]
    /\ UNCHANGED <<model_vars, frame_vars, exit_vars, running, frames, appends,
                   quit_frame>>

\* mutant of MouseButtonUp: only the slider under the pointer is released
MouseButtonUpUnderPointer(pos, maxEvents) ==
    /\ pc = "events"
    /\ nevents < maxEvents
    /\ event' = [type |-> "MOUSEBUTTONUP", pos |-> pos]
    /\ nevents' = nevents + 1
    /\ sliders' = [name \in Names |->
          IF Collides(name, sliders[name].value, pos)
          THEN [sliders[name] EXCEPT !.dragging = FALSE]
          ELSE sliders[name]]
    /\ UNCHANGED <<num_students, teacher_skill, curriculum_content, time_allotted,
                   passing_threshold, learning_speeds, student_positions, history,
                   capacity_ratios, fail_count, fail_rate, canvas, chart, plt_open,
                   pygame_open, exit_status, running, pc, frames, appends,
                   quit_frame>>

\* event.type == pygame.MOUSEBUTTONUP at pos
MouseButtonUp(pos, maxEvents) ==
    /\ pc = "events"
    /\ nevents < maxEvents
    /\ event' = [type |-> "MOUSEBUTTONUP", pos |-> pos]
    /\ nevents' = nevents + 1
    /\ sliders' = [name \in Names |-> [sliders[name] EXCEPT !.dragging = FALSE]]
    /\ UNCHANGED <<model_vars, frame_vars, exit_vars, running, pc, frames, appends,
                   quit_frame>>

\* event.type == pygame.MOUSEMOTION at pos
MouseMotion(pos, maxEvents) ==
    /\ pc = "events"
    /\ nevents < maxEvents
    /\ event' = [type |-> "MOUSEMOTION", pos |-> pos]
    /\ nevents' = nevents + 1
    /\ IF TrackWidth = 0 /\ \E name \in Names : sliders[name].dragging
       THEN /\ pc' = "error"
            /\ UNCHANGED sliders
       ELSE /\ pc' = pc
            /\ sliders' = [name \in Names |->
                  IF sliders[name].dragging
                  THEN [sliders[name] EXCEPT !.value = DragValue(name, pos[1])]
                  ELSE sliders[name]]
    /\ UNCHANGED <<model_vars, frame_vars, exit_vars, running, frames, appends,
                   quit_frame>>

\* mutant of EndEvents: the frame goes on without update_parameters()
EndEventsNoUpdate ==
    /\ pc = "events"
    /\ pc' = "compute"
    /\ event' = [type |-> "none", pos |-> <<0, 0>>]
    /\ UNCHANGED <<sliders, num_students, teacher_skill, curriculum_content,
                   time_allotted, passing_threshold, learning_speeds,
                   student_positions, history, capacity_ratios, fail_count,
                   fail_rate, canvas, chart, plt_open, pygame_open, exit_status,
                   running, frames, appends, nevents, quit_frame>>

\* the list pygame.event.get() returned is exhausted
EndEvents ==
    /\ pc = "events"
    /\ pc' = "update"
    /\ event' = NoEvent
    /\ UNCHANGED <<sliders, model_vars, frame_vars, exit_vars, running, frames,
                   appends, nevents, quit_frame>>

---------------------------------------------------------------------------
(* run(): the rest of the frame *)

\* setup_students() for the class size n
setup_students(n) ==
    \E seed \in Seeds :
        /\ learning_speeds' = SampleSpeeds(seed, n)
        /\ student_positions' = SamplePositions(seed, n)

\* mutant of update_parameters: the population is compared with the class
\* size of the frame before
update_parameters_stale ==
    /\ pc = "update"
    /\ num_students' = IntOf(sliders["class_size"].value)
    /\ teacher_skill' = sliders["teacher_skill"].value
    /\ curriculum_content' = sliders["curriculum_intensity"].value
    /\ time_allotted' = sliders["time_available"].value
    /\ IF Len(learning_speeds) # num_students
       THEN setup_students(num_students')
       ELSE UNCHANGED <<learning_speeds, student_positions>>
    /\ pc' = "compute"
    /\ UNCHANGED <<sliders, passing_threshold, history, capacity_ratios, fail_count,
                   fail_rate, canvas, chart, plt_open, pygame_open, exit_status,
                   running, event, frames, appends, nevents, quit_frame>>

\* self.update_parameters()
update_parameters ==
    /\ pc = "update"
    /\ num_students' = IntOf(sliders["class_size"].value)
    /\ teacher_skill' = sliders["teacher_skill"].value
    /\ curriculum_content' = sliders["curriculum_intensity"].value
    /\ time_allotted' = sliders["time_available"].value
    /\ IF Len(learning_speeds) # num_students'
       THEN setup_students(num_students')
       ELSE UNCHANGED <<learning_speeds, student_positions>>
    /\ pc' = "compute"
    /\ UNCHANGED <<sliders, passing_threshold, history, frame_vars, exit_vars,
                   running, event, frames, appends, nevents, quit_frame>>

\* capacity_ratios, fail_count, fail_rate (lines 197-199)
ComputeState ==
    /\ pc = "compute"
    /\ IF DivisionFails
       THEN /\ pc' = "error"
            /\ UNCHANGED <<capacity_ratios, fail_count, fail_rate>>
       ELSE /\ pc' = "record"
            /\ capacity_ratios' = RatiosOf(learning_speeds)
            /\ fail_count' = FailCount(capacity_ratios')
            /\ fail_rate' = FailRate(fail_count')
    /\ UNCHANGED <<sliders, model_vars, canvas, chart, exit_vars, running, event,
                   frames, appends, nevents, quit_frame>>

\* self.history.append({...}); `frame` is a history variable: the frame of
\* the record
RecordHistory ==
    /\ pc = "record"
    /\ history' = Append(history,
          [fail_rate |-> fail_rate,
           avg_capacity_ratio |-> Mean(capacity_ratios),
           demand |-> compute_effective_demand,
           frame |-> frames + 1])
    /\ appends' = appends + 1
    /\ pc' = "evict"
    /\ UNCHANGED <<sliders, num_students, teacher_skill, curriculum_content,
                   time_allotted, passing_threshold, learning_speeds,
                   student_positions, frame_vars, exit_vars, running, event,
                   frames, nevents, quit_frame>>

\* mutant of EvictHistory: self.history.pop()
EvictHistoryNewest ==
    /\ pc = "evict"
    /\ history' = IF Len(history) > HistoryCap
                  THEN SubSeq(history, 1, Len(history) - 1)
                  ELSE history
    /\ pc' = "draw"
    /\ UNCHANGED <<sliders, num_students, teacher_skill, curriculum_content,
                   time_allotted, passing_threshold, learning_speeds,
                   student_positions, capacity_ratios, fail_count, fail_rate,
                   canvas, chart, plt_open, pygame_open, exit_status, running,
                   event, frames, appends, nevents, quit_frame>>

\* if len(self.history) > 50: self.history.pop(0)
EvictHistory ==
    /\ pc = "evict"
    /\ history' = IF Len(history) > HistoryCap THEN Tail(history) ELSE history
    /\ pc' = "draw"
    /\ UNCHANGED <<sliders, num_students, teacher_skill, curriculum_content,
                   time_allotted, passing_threshold, learning_speeds,
                   student_positions, frame_vars, exit_vars, running, event,
                   frames, appends, nevents, quit_frame>>

\* the Pygame drawing of lines 212-280: the student markers (position,
\* passing colour), the info panel and the four sliders
DrawCanvas ==
    /\ pc = "draw"
    /\ canvas' =
          [students |->
              [i \in 1 .. Min(Len(student_positions), Len(capacity_ratios)) |->
                  [pos |-> student_positions[i],
                   green |-> ~RLess(capacity_ratios[i], passing_threshold)]],
           info |->
              [students |-> num_students,
               teacher_skill |-> teacher_skill,
               curriculum |-> curriculum_content,
               time |-> time_allotted,
               demand |-> compute_effective_demand,
               fail_rate |-> fail_rate,
               avg_ratio |-> Mean(capacity_ratios),
               passing |-> num_students - fail_count],
           sliders |->
              [name \in Names |->
                  [handle |-> HandleLeft(name, sliders[name].value),
                   value |-> sliders[name].value,
                   dragging |-> sliders[name].dragging]]]
    /\ pc' = "plot"
    /\ UNCHANGED <<sliders, model_vars, capacity_ratios, fail_count, fail_rate,
                   chart, exit_vars, running, event, frames, appends, nevents,
                   quit_frame>>

\* self.update_matplotlib_plot(): the histogram of the capacity ratios and
\* the fail-rate series of the history
update_matplotlib_plot ==
    /\ pc = "plot"
    /\ chart' = [ratios |-> RatiosOf(learning_speeds),
                 fail_rates |-> [i \in 1 .. Len(history) |-> history[i].fail_rate]]
    /\ pc' = "flip"
    /\ UNCHANGED <<sliders, model_vars, capacity_ratios, fail_count, fail_rate,
                   canvas, exit_vars, running, event, frames, appends, nevents,
                   quit_frame>>

\* pygame.display.flip(); self.clock.tick(30): the frame ends
Flip ==
    /\ pc = "flip"
    /\ frames' = frames + 1
    /\ pc' = "loop"
    /\ UNCHANGED <<sliders, model_vars, frame_vars, exit_vars, running, event,
                   appends, nevents, quit_frame>>

---------------------------------------------------------------------------
(* run(): after the loop *)

\* plt.close()
PltClose ==
    /\ pc = "close"
    /\ plt_open' = FALSE
    /\ pc' = "quit"
    /\ UNCHANGED <<sliders, model_vars, frame_vars, pygame_open, exit_status,
                   running, event, frames, appends, nevents, quit_frame>>

\* pygame.quit()
PygameQuit ==
    /\ pc = "quit"
    /\ pygame_open' = FALSE
    /\ pc' = "exit"
    /\ UNCHANGED <<sliders, model_vars, frame_vars, plt_open, exit_status,
                   running, event, frames, appends, nevents, quit_frame>>

\* sys.exit(): SystemExit with no argument, status 0
SysExit ==
    /\ pc = "exit"
    /\ exit_status' = 0
    /\ pc' = "exited"
    /\ UNCHANGED <<sliders, model_vars, frame_vars, plt_open, pygame_open,
                   running, event, frames, appends, nevents, quit_frame>>

---------------------------------------------------------------------------
(* Specifications *)

Frame ==
    \/ update_parameters
    \/ ComputeState
    \/ RecordHistory
    \/ EvictHistory
    \/ DrawCanvas
    \/ update_matplotlib_plot
    \/ Flip

Shutdown ==
    \/ LeaveLoop
    \/ PltClose
    \/ PygameQuit
    \/ SysExit

Next ==
    \/ BeginFrame(MaxFrames)
    \/ Quit(MaxEvents)
    \/ \E pos \in DownPositions : MouseButtonDown(pos, MaxEvents)
    \/ \E pos \in UpPositions : MouseButtonUp(pos, MaxEvents)
    \/ \E pos \in MotionPositions : MouseMotion(pos, MaxEvents)
    \/ EndEvents
    \/ Frame
    \/ Shutdown

Spec == Init /\ [][Next]_vars


NextHistory ==
    \/ BeginFrame(MaxHistoryFrames)
    \/ Quit(MaxHistoryEvents)
    \/ \E pos \in FewPositions : MouseButtonDown(pos, MaxHistoryEvents)
    \/ \E pos \in FewPositions : MouseButtonUp(pos, MaxHistoryEvents)
    \/ \E pos \in FewPositions : MouseMotion(pos, MaxHistoryEvents)
    \/ EndEvents
    \/ Frame
    \/ Shutdown

SpecHistory == Init /\ [][NextHistory]_vars

NextExit ==
    \/ BeginFrame(MaxExitFrames)
    \/ Quit(MaxExitEvents)
    \/ \E pos \in FewPositions : MouseButtonDown(pos, MaxExitEvents)
    \/ \E pos \in FewPositions : MouseButtonUp(pos, MaxExitEvents)
    \/ \E pos \in FewPositions : MouseMotion(pos, MaxExitEvents)
    \/ EndEvents
    \/ Frame
    \/ Shutdown

\* run() is at a statement it goes on from: the end of the event list, a
\* statement of the rest of the frame, the loop head once running is False,
\* a statement after the loop
Proceeds ==
    \/ pc \in {"events", "update", "compute", "record", "evict", "draw", "plot",
               "flip", "close", "quit", "exit"}
    \/ pc = "loop" /\ ~running

\* run() goes on to another statement
Proceed ==
    /\ Proceeds
    /\ pc' \in {"loop", "events", "update", "compute", "record", "evict", "draw",
                "plot", "flip", "close", "quit", "exit", "exited", "error"}
    /\ pc' # pc

\* run() never stops between two statements: every call it makes returns.
\* The fairness is stated on Proceed and not on the actions themselves: the
\* steps of NextExit that change pc where Proceeds holds are exactly the
\* steps of EndEvents, Frame and Shutdown, one of which is enabled wherever
\* Proceeds holds.
SpecExit == Init /\ [][NextExit]_vars /\ WF_pc(Proceed)

---------------------------------------------------------------------------
(* Properties *)

Dragging == {name \in Names : sliders[name].dragging}

\* the positions of run() after the history record of the frame was appended
AfterAppend == {"evict", "draw", "plot", "flip"}
\* the positions of run() inside the loop
InLoop == {"loop", "events", "update", "compute", "record"} \cup AfterAppend
\* the positions of run() after the loop
AfterLoop == {"close", "quit", "exit", "exited"}

\* the effective demand, the capacity ratios, the fail count and the fail
\* rate as the formulas of the specification give them, from the values of
\* the four sliders and the population
SliderStudents == sliders["class_size"].value \div Scale
SliderDemand ==
    RMul(RMul(Rat(sliders["curriculum_intensity"].value,
                  sliders["time_available"].value),
              Rat(Scale, sliders["teacher_skill"].value)),
         Rat(39 + SliderStudents, 40))
SliderRatios ==
    LET d == SliderDemand
    IN  [i \in 1 .. Len(learning_speeds) |->
            RDiv(Rat(learning_speeds[i], SpeedUnit), d)]
SliderFailing ==
    LET r == SliderRatios
    IN  {i \in 1 .. Len(r) : RLess(r[i], RInt(1))}
SliderFailRate == Rat(100 * Cardinality(SliderFailing), SliderStudents)

\* C1: at every frame boundary and when update_matplotlib_plot reads it,
\* history has at most 50 records and holds exactly the records of the last
\* min(k, 50) frames in frame order, k the number of frames executed so far;
\* the chart plots one fail rate per record
C1_HistoryBounded ==
    /\ pc \in {"loop", "plot"} =>
          LET k == IF pc = "plot" THEN frames + 1 ELSE frames
          IN  /\ Len(history) <= 50
              /\ Len(history) = Min(k, 50)
              /\ \A i \in 1 .. Len(history) :
                    history[i].frame = k - Len(history) + i
    /\ pc = "flip" =>
          /\ Len(chart.fail_rates) <= 50
          /\ chart.fail_rates = [i \in 1 .. Len(history) |-> history[i].fail_rate]

\* C1 witness: the chart renderer reads the history of frame 51: the record
\* of frame 1 is gone and the record of frame 51 is the last of 50
C1_Witness ==
    /\ pc = "plot"
    /\ frames = 50
    /\ Len(history) = 50
    /\ history[1].frame = 2
    /\ history[50].frame = 51

\* C2: update_parameters replaces the population by M sampled speeds, each
\* at least 0.3, when the class size M of the slider differs from the class
\* size N of the frame before, and leaves learning_speeds and
\* student_positions alone when it is the same
C2_Resample ==
    [][ (pc = "update" /\ pc' = "compute") =>
            LET M == sliders["class_size"].value \div Scale
                N == num_students
            IN  IF M # N
                THEN /\ Len(learning_speeds') = M
                     /\ Len(student_positions') = M
                     /\ \A i \in 1 .. M : 10 * learning_speeds'[i] >= 3 * SpeedUnit
                     /\ \E seed \in Seeds :
                           learning_speeds' =
                              [i \in 1 .. M |-> Max(SpeedFloor, RawNormal(seed, i))]
                ELSE /\ learning_speeds' = learning_speeds
                     /\ student_positions' = student_positions ]_vars

\* C2 witness: a frame has resampled the population for a class of 5, and a
\* draw below 0.3 was raised to 0.3
C2_Witness ==
    /\ pc = "compute"
    /\ num_students = 5
    /\ Len(learning_speeds) = 5
    /\ \E i \in 1 .. 5 : learning_speeds[i] = SpeedFloor

\* the handle hit-box of a slider, from its value: 8 wide, 21 high, its left
\* edge 4 left of the handle position along the track, its top 3 above the
\* track
InHitBox(name, pos) ==
    LET lo == ParamMin(name)
        hi == ParamMax(name)
        left == 20 - 4 + ((sliders[name].value - lo) * 160) \div (hi - lo)
        top == SliderTop(name) - 3
    IN  /\ left <= pos[1] /\ pos[1] < left + 8
        /\ top <= pos[2] /\ pos[2] < top + 21

\* C3: every slider starts Idle; a pointer-up puts all four in Idle; a
\* pointer-down puts into Dragging exactly the sliders whose hit-box, from
\* the value at that moment, holds the pointer, and leaves the others as
\* they are; no other event and no other step of the frame changes a flag
C3_DragState ==
    /\ (pc = "loop" /\ frames = 0 /\ nevents = 0 => Dragging = {})
    /\ [][ /\ (nevents' = nevents + 1 /\ event'.type = "MOUSEBUTTONUP") =>
                \A name \in Names : ~sliders'[name].dragging
           /\ (nevents' = nevents + 1 /\ event'.type = "MOUSEBUTTONDOWN") =>
                \A name \in Names :
                    sliders'[name].dragging <=>
                        (sliders[name].dragging \/ InHitBox(name, event'.pos))
           /\ (nevents' = nevents + 1 /\ event'.type \in {"MOUSEMOTION", "QUIT"}) =>
                \A name \in Names : sliders'[name].dragging = sliders[name].dragging
           /\ nevents' = nevents =>
                \A name \in Names : sliders'[name].dragging = sliders[name].dragging
         ]_vars

\* C3 witness: a slider is Dragging after a pointer-move
C3_Witness ==
    /\ event.type = "MOUSEMOTION"
    /\ sliders["teacher_skill"].dragging
    /\ ~sliders["class_size"].dragging

\* C4: the parameters stay in their ranges and passing_threshold stays 1.0
C4_Ranges ==
    /\ num_students >= 5 /\ num_students <= 40
    /\ 10 * teacher_skill >= Scale /\ teacher_skill <= Scale
    /\ curriculum_content >= 50 * Scale /\ curriculum_content <= 200 * Scale
    /\ time_allotted >= 30 * Scale /\ time_allotted <= 120 * Scale
    /\ passing_threshold = <<1, 1>>

\* C4 witness: a drag beyond the left end of the track has put teacher_skill
\* at 0.1 and a drag beyond the right end has put the class size at 40
C4_Witness ==
    \/ /\ pc = "compute" /\ 10 * teacher_skill = Scale /\ num_students = 5
    \/ /\ pc = "compute" /\ teacher_skill = Scale /\ num_students = 40

\* C5: the fail rate of the frame, recorded and displayed, is 100 times the
\* number of students with capacity ratio below 1.0 over num_students; the
\* population has num_students members; the rate is in [0, 100]
C5_FailRate ==
    pc \in {"record"} \cup AfterAppend =>
        LET failing == SliderFailing
            rate == Rat(100 * Cardinality(failing), num_students)
        IN  /\ Len(learning_speeds) = num_students
            /\ num_students = SliderStudents
            /\ fail_rate = rate
            /\ RLeq(RInt(0), fail_rate) /\ RLeq(fail_rate, RInt(100))
            /\ pc \in AfterAppend => history[Len(history)].fail_rate = rate
            /\ pc \in {"plot", "flip"} =>
                  /\ canvas.info.fail_rate = rate
                  /\ canvas.info.passing = num_students - Cardinality(failing)
            /\ pc = "flip" => chart.fail_rates[Len(chart.fail_rates)] = rate

\* C5 witness: a student with capacity ratio exactly 1.0 is counted as
\* passing, next to students who fail
C5_Witness ==
    /\ pc = "flip"
    /\ \E i \in 1 .. Len(learning_speeds) :
          /\ SliderRatios[i] = <<1, 1>>
          /\ i \notin SliderFailing
    /\ SliderFailing # {}
    /\ RLess(fail_rate, RInt(100))

\* C6: a pointer-move to x sets the value of a Dragging slider to
\* min + (clamp(x - 20, 0, 160) / 160) * (max - min): min at or left of the
\* left end, max at or right of the right end, linear between, never outside
C6_DragClamp ==
    event.type = "MOUSEMOTION" =>
        \A name \in Dragging :
            LET x == event.pos[1]
                lo == ParamMin(name)
                hi == ParamMax(name)
                v == sliders[name].value
            IN  /\ x <= 20 => v = lo
                /\ x >= 180 => v = hi
                /\ (20 < x /\ x < 180) => 160 * (v - lo) = (x - 20) * (hi - lo)
                /\ lo <= v /\ v <= hi

\* C6 witness: pointer-moves beyond the right end, beyond the left end and
\* inside the track have set the value of a Dragging slider
C6_Witness ==
    /\ event.type = "MOUSEMOTION"
    /\ \/ /\ event.pos[1] > 180
          /\ sliders["time_available"].dragging
          /\ sliders["time_available"].value = 120 * Scale
       \/ /\ event.pos[1] < 20
          /\ sliders["time_available"].dragging
          /\ sliders["time_available"].value = 30 * Scale

\* C7: no frame ends in an error; every divisor is non-zero where it is used
C7_NoError ==
    /\ pc # "error"
    /\ TrackWidth # 0
    /\ \A name \in Names : ParamMax(name) # ParamMin(name)
    /\ pc \in {"compute", "record", "draw", "plot"} =>
          /\ time_allotted # 0
          /\ teacher_skill # 0
          /\ num_students # 0
          /\ ~RIsZero(SliderDemand)
          /\ Len(learning_speeds) # 0

\* C7 witness: the frame has divided by the smallest teacher_skill and the
\* smallest time_allotted
C7_Witness ==
    /\ pc = "record"
    /\ teacher_skill = ParamMin("teacher_skill")
    /\ time_allotted = ParamMin("time_available")

\* the loop is left only after a QUIT event; the frame that polled it runs
\* to its end and no further frame starts; then the chart is closed, then
\* Pygame is shut down, then the process exits with status 0
C8_Safety ==
    /\ pc \in AfterLoop => quit_frame # 0 /\ frames = quit_frame /\ appends = frames
    /\ quit_frame = 0 => pc \in InLoop /\ running
    /\ quit_frame # 0 =>
          /\ ~running
          /\ frames <= quit_frame
          /\ pc \in InLoop \ {"loop"} => frames = quit_frame - 1
    /\ pc \in InLoop \cup {"close"} => plt_open /\ pygame_open
    /\ pc = "quit" => ~plt_open /\ pygame_open
    /\ pc \in {"exit", "exited"} => ~plt_open /\ ~pygame_open
    /\ pc = "exited" <=> exit_status = 0
    /\ pc # "exited" => exit_status = NotExited

\* C8: once QUIT is polled the process exits: the frame that polled it runs
\* to its end, no further frame starts, the chart is closed, Pygame is shut
\* down and the exit status is 0; without a QUIT the loop is never left
C8_Exit == []C8_Safety /\ ((quit_frame # 0) ~> (pc = "exited"))

\* C8 witness: QUIT was polled in the second frame and the process has
\* exited with status 0
C8_Witness ==
    /\ pc = "exited"
    /\ exit_status = 0
    /\ quit_frame = 2
    /\ Len(history) = 2

\* C9: after the events of a frame the parameters are the slider values and
\* the population has the class size of the slider; the record appended,
\* the canvas and the chart are computed from them; one record is appended
\* per frame
C9_FrameOrder ==
    /\ appends = frames + (IF pc \in AfterAppend THEN 1 ELSE 0)
    /\ pc \in {"compute", "record"} \cup AfterAppend =>
          /\ num_students = SliderStudents
          /\ teacher_skill = sliders["teacher_skill"].value
          /\ curriculum_content = sliders["curriculum_intensity"].value
          /\ time_allotted = sliders["time_available"].value
          /\ Len(learning_speeds) = SliderStudents
          /\ Len(student_positions) = SliderStudents
    /\ pc \in {"record"} \cup AfterAppend =>
          LET ratios == SliderRatios
              failing == SliderFailing
              rate == SliderFailRate
              demand == SliderDemand
          IN  /\ capacity_ratios = ratios
              /\ pc \in AfterAppend =>
                    LET last == history[Len(history)]
                    IN  /\ last.frame = frames + 1
                        /\ last.fail_rate = rate
                        /\ last.demand = demand
                        /\ last.avg_capacity_ratio =
                              RDiv(RSum(ratios), RInt(SliderStudents))
              /\ pc \in {"plot", "flip"} =>
                    /\ canvas.info.students = SliderStudents
                    /\ canvas.info.teacher_skill = sliders["teacher_skill"].value
                    /\ canvas.info.curriculum = sliders["curriculum_intensity"].value
                    /\ canvas.info.time = sliders["time_available"].value
                    /\ canvas.info.demand = demand
                    /\ canvas.info.fail_rate = rate
                    /\ Len(canvas.students) = SliderStudents
                    /\ \A i \in 1 .. SliderStudents :
                          /\ canvas.students[i].pos = student_positions[i]
                          /\ canvas.students[i].green = (i \notin failing)
                    /\ \A name \in Names :
                          /\ canvas.sliders[name].value = sliders[name].value
                          /\ canvas.sliders[name].dragging = sliders[name].dragging
              /\ pc = "flip" => chart.ratios = ratios

\* C9 witness: the record of the second frame differs from the record of the
\* first: it is computed from the slider values the events of the second
\* frame left
C9_Witness ==
    /\ pc = "flip"
    /\ Len(history) = 2
    /\ history[1].demand # history[2].demand
    /\ history[2].demand = SliderDemand
    /\ nevents = 2

\* C10: at most one slider is Dragging at any time
C10_AtMostOneDragging == Cardinality(Dragging) <= 1

====
